---- MODULE Spec2Model ----
(***************************************************************************)
(* Reference resolution of erasmus/data.py: the book registry, the         *)
(* reference grammar (the compiled patterns, matched the way Python's      *)
(* backtracking engine matches them), the VerseRange factory and           *)
(* rendering, and the scanning loop of VerseRange.get_all_from_string.     *)
(*                                                                         *)
(* A text is a sequence of characters; a character is a one-character      *)
(* string, except the four characters named below.  Offsets are Python     *)
(* offsets: offset p stands before character p + 1.                        *)
(***************************************************************************)
EXTENDS Integers, Sequences, FiniteSets, TLC

\* An optional value is a sequence of at most one element: None is the empty
\* one, Some(x) holds x.
None == << >>
Some(x) == <<x>>
ValueOf(o) == o[1]

\* ------------------------------------------------------------ characters
LF == "LF"              \* the newline character
LongS == "U+017F"       \* LATIN SMALL LETTER LONG S
EnDash == "U+2013"
EmDash == "U+2014"

UpperCase == <<"A", "B", "C", "D", "E", "F", "G", "H", "I", "J", "K", "L", "M",
               "N", "O", "P", "Q", "R", "S", "T", "U", "V", "W", "X", "Y", "Z">>
LowerCase == <<"a", "b", "c", "d", "e", "f", "g", "h", "i", "j", "k", "l", "m",
               "n", "o", "p", "q", "r", "s", "t", "u", "v", "w", "x", "y", "z">>
Range(f) == {f[i] : i \in DOMAIN f}
DigitChars == <<"0", "1", "2", "3", "4", "5", "6", "7", "8", "9">>

\* str.lower() on one character: the long s is already lower case.
LowerChar(c) ==
    IF c \in Range(UpperCase)
    THEN LowerCase[CHOOSE i \in DOMAIN UpperCase : UpperCase[i] = c]
    ELSE c
\* str.lower()
Lower(s) == [i \in DOMAIN s |-> LowerChar(s[i])]

\* str.upper() on one character; the long s upper-cases to S.
UpperChar(c) ==
    IF c \in Range(LowerCase)
    THEN UpperCase[CHOOSE i \in DOMAIN LowerCase : LowerCase[i] = c]
    ELSE IF c = LongS THEN "S" ELSE c

\* The key under which re.IGNORECASE compares two characters: lower case,
\* and the long s is one of the extra case-equivalents of "s".
ReFold(c) == IF c = LongS THEN "s" ELSE LowerChar(c)
CaseEq(a, b) == ReFold(a) = ReFold(b)

\* the character classes of the patterns, as the sets of their characters
DIGIT == Range(DigitChars)                                  \* \d
WHITESPACE == {" ", LF}                                     \* \s
ALPHANUMERICS ==                                            \* \w
    Range(UpperCase) \cup Range(LowerCase) \cup Range(DigitChars) \cup {"_", LongS}
DASHES == {"-", EnDash, EmDash}                             \* the class of DASH, en dash, em dash

\* s[a:b]
Slice(s, a, b) == SubSeq(s, a + 1, b)

\* ------------------------------------------------------------ the dataset
\* A section is a bitmask or the tag 'DC'; the tag is kept as an integer that
\* is no bitmask, so that two sections can always be compared.
DC == 0 - 1

\* books.json, loaded at import: five of its entries, in dataset order.
\* "Psalm" is an alias of Psalms and "Psalm 151" the name of a later book.
_books_data ==
    << [name |-> <<"G", "e", "n", "e", "s", "i", "s">>,
        osis |-> <<"G", "e", "n">>,
        paratext |-> <<"G", "E", "N">>,
        alt |-> << <<"G", "e">> >>,
        section |-> 1],
       [name |-> <<"P", "s", "a", "l", "m", "s">>,
        osis |-> <<"P", "s">>,
        paratext |-> <<"P", "S", "A">>,
        alt |-> << <<"P", "s", "a", "l", "m">> >>,
        section |-> 4],
       [name |-> <<"M", "a", "t", "t", "h", "e", "w">>,
        osis |-> <<"M", "a", "t", "t">>,
        paratext |-> <<"M", "A", "T">>,
        alt |-> << <<"M", "t">> >>,
        section |-> 2],
       [name |-> <<"J", "o", "h", "n">>,
        osis |-> <<"J", "o", "h", "n">>,
        paratext |-> <<"J", "H", "N">>,
        alt |-> << <<"J", "n">> >>,
        section |-> 8],
       [name |-> <<"P", "s", "a", "l", "m", " ", "1", "5", "1">>,
        osis |-> <<"A", "d", "d", "P", "s">>,
        paratext |-> <<"P", "S", "2">>,
        alt |-> << >>,
        section |-> DC] >>

\* [book['name'], book['osis']] + book['alt']
InputStrings(book) == <<book.name, book.osis>> \o book.alt

\* chain.from_iterable(...) over the dataset
ChainLiterals ==
    LET f[i \in 0..Len(_books_data)] ==
            IF i = 0 THEN << >> ELSE f[i - 1] \o InputStrings(_books_data[i])
    IN  f[Len(_books_data)]

\* more_itertools.unique_everseen: first occurrences, order kept
unique_everseen(seq) ==
    LET f[i \in 0..Len(seq)] ==
            IF i = 0 THEN << >>
            ELSE IF seq[i] \in Range(f[i - 1]) THEN f[i - 1]
                 ELSE Append(f[i - 1], seq[i])
    IN  f[Len(seq)]

\* The alternatives of the book group, in the order the pattern tries them.
BookAlternatives == unique_everseen(ChainLiterals)

\* _book_data_map: filled in dataset order, a later assignment to a key
\* replacing an earlier one.  The value is the index of the book.
_book_data_map ==
    LET keys == {Lower(l) : l \in Range(ChainLiterals)}
    IN  [k \in keys |->
            CHOOSE i \in 1..Len(_books_data) :
                /\ k \in {Lower(l) : l \in Range(InputStrings(_books_data[i]))}
                /\ \A j \in (i + 1)..Len(_books_data) :
                      k \notin {Lower(l) : l \in Range(InputStrings(_books_data[j]))}]

\* ------------------------------------------------------------ the state
VARIABLES
    registry,         \* the module globals _books_data, _book_input_map,
                      \* _book_data_map and _book_mask_map
    _book             \* the loop variable of the module's for loop: the
                      \* number of dataset entries it has gone through

\* a dict: a function from the keys it holds; d[k] = v keeps the other keys
\* and replaces the value of a key that is already there
EmptyDict == [k \in {} |-> None]
SetItem(d, k, v) == [x \in DOMAIN d \cup {k} |-> IF x = k THEN v ELSE d[x]]

\* the module globals before the loop: the dataset as read, three empty maps
Unloaded(data) ==
    [_books_data |-> data,
     _book_input_map |-> EmptyDict,
     _book_data_map |-> EmptyDict,
     _book_mask_map |-> EmptyDict]

\* the inner loop of the module over the first n input strings of a book:
\* both maps get the lower-cased string as key
RECURSIVE LoadInputStrings(_, _, _)
LoadInputStrings(reg, book, n) ==
    IF n = 0 THEN reg
    ELSE LET before == LoadInputStrings(reg, book, n - 1)
             key == Lower(InputStrings(book)[n])
         IN  [before EXCEPT
                 !._book_input_map = SetItem(@, key, book.name),
                 !._book_data_map = SetItem(@, key, book)]

\* one turn of the module's loop over _books_data
LoadBook(reg, book) ==
    LET strings == LoadInputStrings(reg, book, Len(InputStrings(book)))
    IN  [strings EXCEPT !._book_mask_map = SetItem(@, book.name, book.section)]

\* the module's loop over the first n books of the dataset
RECURSIVE LoadBooks(_, _)
LoadBooks(data, n) ==
    IF n = 0 THEN Unloaded(data) ELSE LoadBook(LoadBooks(data, n - 1), data[n])

\* the module globals once the import is over
load(data) == LoadBooks(data, Len(data))

\* ------------------------------------------------------------ the matcher
\* A pattern is matched the way the backtracking engine of Python's re
\* matches it: a sub-pattern applied to a matcher state gives the sequence
\* of the states it can end in, in the order the engine tries them; the
\* match of a whole pattern is the first state of that sequence.
\* A matcher state is the offset reached and the groups captured so far.
NoGroups ==
    [bracket |-> None, book |-> None, chapter_start |-> None, verse_start |-> None,
     chapter_end |-> None, verse_end |-> None, version |-> None]

\* p1 followed by p2: every way of p2 after every way of p1, in order
Then(states, P(_)) ==
    LET f[i \in 0..Len(states)] ==
            IF i = 0 THEN << >> ELSE f[i - 1] \o P(states[i])
    IN  f[Len(states)]

\* the length of the longest run of characters of a class from offset p
RunLength(s, p, class) ==
    CHOOSE n \in 0..(Len(s) - p) :
        /\ \A i \in 1..n : s[p + i] \in class
        /\ (n = Len(s) - p \/ s[p + n + 1] \notin class)

\* (?:class){min,}, greedy: the longest run first, then shorter ones
Repeat(s, st, class, min) ==
    LET n == RunLength(s, st.pos, class)
    IN  [i \in 1..(n - min + 1) |-> [st EXCEPT !.pos = st.pos + n - i + 1]]

any_number_of(s, st, class) == Repeat(s, st, class, 0)
one_or_more(s, st, class) == Repeat(s, st, class, 1)

\* one character of a class
OneChar(s, st, class) ==
    IF st.pos < Len(s) /\ s[st.pos + 1] \in class
    THEN << [st EXCEPT !.pos = st.pos + 1] >>
    ELSE << >>

COLON == {":"}
DOT == {"."}
LEFT_BRACKET == {"["}
RIGHT_BRACKET == {"]"}

\* (?P<name>(?:class)+)
named_group(name, s, st, class) ==
    LET ends == one_or_more(s, st, class)
    IN  [i \in DOMAIN ends |->
            [pos |-> ends[i].pos,
             g |-> [st.g EXCEPT ![name] = Some(Slice(s, st.pos, ends[i].pos))]]]

\* (?:p)?, greedy: with p first, then without
optional(states, st) == states \o <<st>>

\* a literal of the alternation at offset p, compared under IGNORECASE
LiteralAt(s, p, lit) ==
    /\ p + Len(lit) <= Len(s)
    /\ \A i \in 1..Len(lit) : CaseEq(s[p + i], lit[i])

\* a book group that takes any word, whatever the alternatives
either_AnyWord(s, st, alternatives) == named_group("book", s, st, ALPHANUMERICS)

\* the alternation of the book group: the alternatives in their order
either(s, st, alternatives) ==
    LET f[i \in 0..Len(alternatives)] ==
            IF i = 0 THEN << >>
            ELSE IF LiteralAt(s, st.pos, alternatives[i])
                 THEN Append(f[i - 1],
                        [pos |-> st.pos + Len(alternatives[i]),
                         g |-> [st.g EXCEPT !.book =
                                  Some(Slice(s, st.pos, st.pos + Len(alternatives[i])))]])
                 ELSE f[i - 1]
    IN  f[Len(alternatives)]

\* _book_re: (?P<book>(?:lit|lit|...))(?:\.)?
_book_re(s, st) ==
    Then(either(s, st, BookAlternatives),
         LAMBDA a : optional(OneChar(s, a, DOT), a))

\* _colon: \s*:\s*
_colon(s, st) ==
    Then(any_number_of(s, st, WHITESPACE),
         LAMBDA a : Then(OneChar(s, a, COLON),
         LAMBDA b : any_number_of(s, b, WHITESPACE)))

\* the optional chapter end: (?:(?P<chapter_end>\d+)\s*:\s*)?
ChapterEnd(s, st) ==
    optional(Then(named_group("chapter_end", s, st, DIGIT),
                  LAMBDA a : _colon(s, a)), st)

\* the range suffix: \s*[\-–—]\s*(chapter_end:)?(?P<verse_end>\d+)
RangeSuffix(s, st) ==
    Then(any_number_of(s, st, WHITESPACE),
         LAMBDA a : Then(OneChar(s, a, DASHES),
         LAMBDA b : Then(any_number_of(s, b, WHITESPACE),
         LAMBDA c : Then(ChapterEnd(s, c),
         LAMBDA d : named_group("verse_end", s, d, DIGIT)))))

\* a book separated from its chapter by any run of characters but digits
BookSeparator_NonDigits(s, st) ==
    one_or_more(s, st, (ALPHANUMERICS \cup WHITESPACE \cup DOT) \ DIGIT)

\* the whitespace between the book and the chapter: \s+
BookSeparator(s, st) == one_or_more(s, st, WHITESPACE)

\* _reference_re
_reference_re(s, st) ==
    Then(_book_re(s, st),
         LAMBDA a : Then(BookSeparator(s, a),
         LAMBDA b : Then(named_group("chapter_start", s, b, DIGIT),
         LAMBDA c : Then(_colon(s, c),
         LAMBDA d : Then(named_group("verse_start", s, d, DIGIT),
         LAMBDA e : optional(RangeSuffix(s, e), e))))))

\* _reference_with_version_re: the reference, then (?:\s*(?P<version>\w+))?
_reference_with_version_re(s, st) ==
    Then(_reference_re(s, st),
         LAMBDA a : optional(Then(any_number_of(s, a, WHITESPACE),
                                  LAMBDA b : named_group("version", s, b, ALPHANUMERICS)), a))

\* the yes-branch of the conditional: (?:(?:\s+(?P<version>\w+))?\s*\])
BracketTail(s, st) ==
    Then(optional(Then(one_or_more(s, st, WHITESPACE),
                       LAMBDA a : named_group("version", s, a, ALPHANUMERICS)), st),
         LAMBDA b : Then(any_number_of(s, b, WHITESPACE),
         LAMBDA c : OneChar(s, c, RIGHT_BRACKET)))

\* a conditional whose no-branch takes a translation code after a bare reference
if_group_BareVersion(s, st) ==
    IF st.g.bracket # None THEN BracketTail(s, st)
    ELSE optional(Then(one_or_more(s, st, WHITESPACE),
                       LAMBDA a : named_group("version", s, a, ALPHANUMERICS)), st)

\* (?(bracket)yes): yes when the group took part, else the empty match
if_group(s, st) ==
    IF st.g.bracket # None THEN BracketTail(s, st) ELSE <<st>>

\* the optional opening: (?:(?P<bracket>\[\s*))?
OpenBracket(s, st) ==
    optional(Then(OneChar(s, st, LEFT_BRACKET),
                  LAMBDA a :
                    LET ends == any_number_of(s, a, WHITESPACE)
                    IN  [i \in DOMAIN ends |->
                          [pos |-> ends[i].pos,
                           g |-> [st.g EXCEPT !.bracket =
                                    Some(Slice(s, st.pos, ends[i].pos))]]]), st)

\* _reference_or_bracketed_with_version_re
_reference_or_bracketed_with_version_re(s, st) ==
    Then(OpenBracket(s, st),
         LAMBDA a : Then(_reference_re(s, a),
         LAMBDA b : if_group(s, b)))

\* _bracketed_reference_with_version_re
_bracketed_reference_with_version_re(s, st) ==
    Then(OneChar(s, st, LEFT_BRACKET),
         LAMBDA a : Then(any_number_of(s, a, WHITESPACE),
         LAMBDA b : Then(_reference_with_version_re(s, b),
         LAMBDA c : Then(any_number_of(s, c, WHITESPACE),
         LAMBDA d : OneChar(s, d, RIGHT_BRACKET)))))

\* re.END, "$" without MULTILINE: at the end of the string, or just before
\* a newline that is its last character
END(s, st) ==
    IF st.pos = Len(s) \/ (st.pos = Len(s) - 1 /\ s[Len(s)] = LF)
    THEN <<st>> ELSE << >>

\* _search_reference_re: ^ reference $
_search_reference_re(s, st) ==
    Then(_reference_re(s, st), LAMBDA a : END(s, a))

\* _search_reference_with_version_re: ^ reference-with-version $
_search_reference_with_version_re(s, st) ==
    Then(_reference_with_version_re(s, st), LAMBDA a : END(s, a))

\* A match object: its span and its groups.
MatchOf(start, st) == [start |-> start, end |-> st.pos, groups |-> st.g]

\* the compiled patterns, by name
Pattern(name, s, st) ==
    CASE name = "_search_reference_re" -> _search_reference_re(s, st)
      [] name = "_search_reference_with_version_re" ->
            _search_reference_with_version_re(s, st)
      [] name = "_reference_or_bracketed_with_version_re" ->
            _reference_or_bracketed_with_version_re(s, st)
      [] name = "_bracketed_reference_with_version_re" ->
            _bracketed_reference_with_version_re(s, st)

\* the match of a pattern at offset p, or None
MatchAt(name, s, p) ==
    LET states == Pattern(name, s, [pos |-> p, g |-> NoGroups])
    IN  IF states = << >> THEN None ELSE Some(MatchOf(p, states[1]))

\* Pattern.search(string, pos): the match at the leftmost offset >= pos
\* at which the pattern matches
RECURSIVE Search(_, _, _)
Search(name, s, pos) ==
    IF pos > Len(s) THEN None
    ELSE LET here == MatchAt(name, s, pos)
         IN  IF here # None THEN here ELSE Search(name, s, pos + 1)

\* ------------------------------------------------------------ values
\* int(str) on a string of decimal digits
DigitValue(c) == (CHOOSE i \in DOMAIN DigitChars : DigitChars[i] = c) - 1
int(digits) ==
    LET f[i \in 0..Len(digits)] ==
            IF i = 0 THEN 0 ELSE 10 * f[i - 1] + DigitValue(digits[i])
    IN  f[Len(digits)]

\* str(int): the decimal digits, most significant first
RECURSIVE str(_)
str(n) ==
    IF n < 0 THEN <<"-">> \o str(0 - n)
    ELSE IF n < 10 THEN <<DigitChars[n + 1]>>
    ELSE str(n \div 10) \o <<DigitChars[(n % 10) + 1]>>

\* class Verse
Verse(chapter, verse) == [chapter |-> chapter, verse |-> verse]
\* Verse.__str__: f'{self.chapter}:{self.verse}'
Verse__str__(v) == str(v.chapter) \o <<":">> \o str(v.verse)

\* A call returns a value or raises an exception.
Return(v) == [raised |-> FALSE, value |-> v]
Raise(e) == [raised |-> TRUE, value |-> e]
BookNotUnderstoodError(book) == [kind |-> "BookNotUnderstoodError", arg |-> book]
ReferenceNotUnderstoodError(text) == [kind |-> "ReferenceNotUnderstoodError", arg |-> text]

\* a lookup that compares the word as written, without lower-casing it
get_book_data_CaseSensitive(book_name_or_abbr) ==
    IF book_name_or_abbr \in DOMAIN registry._book_data_map
    THEN Return(registry._book_data_map[book_name_or_abbr])
    ELSE Raise(BookNotUnderstoodError(book_name_or_abbr))

\* get_book_data
get_book_data(book_name_or_abbr) ==
    IF Lower(book_name_or_abbr) \in DOMAIN registry._book_data_map
    THEN Return(registry._book_data_map[Lower(book_name_or_abbr)])
    ELSE Raise(BookNotUnderstoodError(book_name_or_abbr))

\* VerseRange.create
create(book, start, end, version) ==
    LET data == get_book_data(book)
    IN  IF data.raised THEN data
        ELSE Return([kind |-> "VerseRange",
                     book |-> data.value.name,
                     start |-> start,
                     end |-> end,
                     version |-> version,
                     book_mask |-> data.value.section,
                     osis |-> data.value.osis,
                     paratext |-> data.value.paratext])

\* a rendering that never writes the chapter of the end
verses_EndVerseOnly(r) ==
    IF r.end # None
    THEN Verse__str__(r.start) \o <<"-">> \o str(ValueOf(r.end).verse)
    ELSE Verse__str__(r.start)

\* a rendering that always writes the chapter of the end
verses_EndChapterAlways(r) ==
    IF r.end # None
    THEN Verse__str__(r.start) \o <<"-">> \o Verse__str__(ValueOf(r.end))
    ELSE Verse__str__(r.start)

\* VerseRange.verses
verses(r) ==
    IF r.end # None
    THEN IF ValueOf(r.end).chapter = r.start.chapter
         THEN Verse__str__(r.start) \o <<"-">> \o str(ValueOf(r.end).verse)
         ELSE Verse__str__(r.start) \o <<"-">> \o Verse__str__(ValueOf(r.end))
    ELSE Verse__str__(r.start)

\* VerseRange.__str__: f'{self.book} {self.verses}'
VerseRange__str__(r) == r.book \o <<" ">> \o verses(r)

\* an end that is never before the start: an earlier end is moved up to it
EndOf_NotBeforeStart(groups, chapter_start_int) ==
    IF groups.verse_end # None
    THEN LET chapter_end_int == IF groups.chapter_end # None
                                THEN int(ValueOf(groups.chapter_end))
                                ELSE chapter_start_int
             end_int == int(ValueOf(groups.verse_end))
             verse_start_int == int(ValueOf(groups.verse_start))
         IN  IF \/ chapter_end_int < chapter_start_int
                \/ chapter_end_int = chapter_start_int /\ end_int < verse_start_int
             THEN Some(Verse(chapter_start_int, verse_start_int))
             ELSE Some(Verse(chapter_end_int, end_int))
    ELSE None

\* the end Verse of from_match: the chapter of the start unless one was captured
EndOf(groups, chapter_start_int) ==
    IF groups.verse_end # None
    THEN Some(Verse(IF groups.chapter_end # None
                    THEN int(ValueOf(groups.chapter_end))
                    ELSE chapter_start_int,
                    int(ValueOf(groups.verse_end))))
    ELSE None

\* VerseRange.from_match
from_match(match) ==
    LET groups == match.groups
        chapter_start_int == int(ValueOf(groups.chapter_start))
        start == Verse(chapter_start_int, int(ValueOf(groups.verse_start)))
    IN  create(ValueOf(groups.book), start, EndOf(groups, chapter_start_int),
               groups.version)

\* VerseRange.from_string
from_string(verse) ==
    LET match == MatchAt("_search_reference_re", verse, 0)
    IN  IF match = None THEN Raise(ReferenceNotUnderstoodError(verse))
        ELSE from_match(ValueOf(match))

\* VerseRange.from_string_with_version
from_string_with_version(verse) ==
    LET match == MatchAt("_search_reference_with_version_re", verse, 0)
    IN  IF match = None THEN Raise(ReferenceNotUnderstoodError(verse))
        ELSE from_match(ValueOf(match))

\* a lookup that takes the bare-or-wrapped pattern whatever only_bracketed is
lookup_search_IgnoresFlag(text, bracketed, pos) ==
    Search("_reference_or_bracketed_with_version_re", text, pos)

\* lookup_pattern.search(string, pos) of get_all_from_string
lookup_search(text, bracketed, pos) ==
    IF bracketed
    THEN Search("_bracketed_reference_with_version_re", text, pos)
    ELSE Search("_reference_or_bracketed_with_version_re", text, pos)

\* the loop body without its except clause: the exception leaves the loop
Materialize_NoExcept(match) ==
    LET outcome == from_match(match)
    IN  [element |-> outcome.value, propagates |-> outcome.raised]

\* the try/except of the loop body: what is appended for a match, and
\* whether an exception leaves the loop
Materialize(match) ==
    LET outcome == from_match(match)
    IN  [element |-> outcome.value, propagates |-> FALSE]

\* ------------------------------------------------------------ the inputs
\* The texts the entry points are called with are put together from the
\* parts a reference is made of, each part taken from a few spellings.
Jn == <<"J", "n">>
PsalmWord == <<"P", "s", "a", "l", "m">>
Psalm151 == <<"P", "s", "a", "l", "m", " ", "1", "5", "1">>
PLongS == <<"P", LongS>>                 \* "Ps" written with a long s
Xx == <<"X", "x">>                       \* no literal of the registry

PreParts == {<< >>, <<"x">>}
OpenParts == {<< >>, <<"[">>, <<"[", " ">>}
BookParts == {<< >>, Jn, PsalmWord, Psalm151, PLongS, Xx}
LocatorParts ==
    {<<" ", "3", ":", "1", "6">>, <<".", " ", "3", ":", "1", "6">>,
     <<" ", "1", "5", "1", ":", "1">>, <<":", "1">>}
RangeParts == {<< >>, <<"-", "1", "8">>, <<" ", EnDash, " ", "4", ":", "1">>}
VersionParts == {<< >>, <<" ", "N">>, <<"N">>}
CloseParts == {<< >>, <<"]">>}
PostParts == {<< >>, <<" ", "x">>}

\* one reference-shaped text
ReferenceTexts ==
    {pre \o open \o book \o loc \o rng \o ver \o close \o post :
        pre \in PreParts, open \in OpenParts, book \in BookParts,
        loc \in LocatorParts, rng \in RangeParts, ver \in VersionParts,
        close \in CloseParts, post \in PostParts}

\* texts of several references: up to MaxItems items in a row
MaxItems == 3
Items ==
    {<<"[", "J", "n", " ", "1", ":", "1", "]">>,
     <<"J", "n", " ", "1", ":", "2">>,
     <<"P", LongS, " ", "1", ":", "3">>,
     <<"[", "X", "x", " ", "9", ":", "9", "]">>,
     <<"[">>, <<" ">>, <<"x">>}
RECURSIVE ItemTexts(_)
ItemTexts(n) ==
    IF n = 0 THEN {<< >>}
    ELSE LET shorter == ItemTexts(n - 1)
         IN  shorter \cup {t \o i : t \in shorter, i \in Items}

ScanTexts == ReferenceTexts \cup ItemTexts(MaxItems)

\* every upper/lower-case spelling of a literal
RECURSIVE CaseVariations(_)
CaseVariations(lit) ==
    IF lit = << >> THEN {<< >>}
    ELSE {<<c>> \o v : c \in {UpperChar(Head(lit)), LowerChar(Head(lit))},
                       v \in CaseVariations(Tail(lit))}
ChapterDigits == {<<"3">>, <<"0", "3">>, <<"1", "5", "1">>}
VerseDigits == {<<"1">>, <<"1", "6">>}
\* "Book C:V" for every spelling of every literal of the registry
BookChapterVerseTexts ==
    {v \o <<" ">> \o c \o <<":">> \o d :
        v \in UNION {CaseVariations(l) : l \in Range(ChainLiterals)},
        c \in ChapterDigits, d \in VerseDigits}

\* references whose chapter or verse digits denote zero
ZeroTexts ==
    {Jn \o <<" ">> \o c \o <<":">> \o v \o e :
        c \in {<<"0">>, <<"3">>}, v \in {<<"0">>, <<"0", "0">>, <<"1", "6">>},
        e \in {<< >>, <<"-", "0">>, <<"-", "0", ":", "5">>, <<"-", "4", ":", "0">>,
                <<" ", "N">>}}

\* references with every form of end, before, at and after the start
RangeChapters == {<<"2">>, <<"3">>}
RangeVerses == {<<"5">>, <<"2", "0">>}
RangeTexts ==
    {Jn \o <<" ">> \o c \o <<":">> \o v : c \in RangeChapters, v \in RangeVerses}
    \cup {Jn \o <<" ">> \o c \o <<":">> \o v \o <<"-">> \o ve :
            c \in RangeChapters, v \in RangeVerses, ve \in RangeVerses}
    \cup {Jn \o <<" ">> \o c \o <<":">> \o v \o <<"-">> \o ce \o <<":">> \o ve :
            c \in RangeChapters, v \in RangeVerses,
            ce \in RangeChapters, ve \in RangeVerses}

\* the texts from_string is called with
ParseTexts ==
    ReferenceTexts \cup {t \o <<LF>> : t \in ReferenceTexts} \cup BookChapterVerseTexts
        \cup ZeroTexts \cup RangeTexts

\* the arguments VerseRange.create is called with
MaxChapter == 4
VerseNumbers == {1, 16, 18}
VerseValues == {Verse(c, v) : c \in 1..MaxChapter, v \in VerseNumbers}
CreateArgs ==
    [book : Range(ChainLiterals) \cup {Xx},
     start : VerseValues,
     end : {None} \cup {Some(v) : v \in VerseValues},
     version : {None, Some(<<"N">>)}]

\* ------------------------------------------------------------ preferences
\* a row of bible_versions: the id and the unique command
BibleVersion(id, command) == [id |-> id, command |-> command]
InvalidVersionError(command) == [kind |-> "InvalidVersionError", arg |-> command]

\* a row of user_prefs or guild_prefs, apart from its key: the nullable bible_id
Pref(bible_id) == [bible_id |-> bible_id]

\* no table has a row
NoDatabase == [bible_versions |-> {}, user_prefs |-> EmptyDict, guild_prefs |-> EmptyDict]

\* an insert that leaves the row of a key that is already there as it is
on_conflict_do_nothing(table, key, bible_id) ==
    IF key \in DOMAIN table THEN table ELSE SetItem(table, key, Pref(Some(bible_id)))

\* insert(...).values(<key>, bible_id).on_conflict_do_update(set_ = bible_id):
\* the row of the key is inserted, or its bible_id is updated
on_conflict_do_update(table, key, bible_id) == SetItem(table, key, Pref(Some(bible_id)))

\* BibleVersion.set_for_user
set_for_user(database, self, user) ==
    [database EXCEPT !.user_prefs = on_conflict_do_update(@, user, self.id)]

\* BibleVersion.set_for_guild
set_for_guild(database, self, guild) ==
    [database EXCEPT !.guild_prefs = on_conflict_do_update(@, guild, self.id)]

\* session.get(UserPref, id), session.get(GuildPref, id): the row or None
session_get(table, key) == IF key \in DOMAIN table THEN Some(table[key]) ELSE None

\* the relationship bible_version of a row: the version bible_id refers to
bible_version(database, pref) ==
    IF pref.bible_id = None THEN None
    ELSE LET rows == {v \in database.bible_versions : v.id = ValueOf(pref.bible_id)}
         IN  IF rows = {} THEN None ELSE Some(CHOOSE v \in rows : TRUE)

\* BibleVersion.get_by_command
get_by_command(database, command) ==
    LET rows == {v \in database.bible_versions : v.command = command}
    IN  IF rows = {} THEN Raise(InvalidVersionError(command))
        ELSE Return(CHOOSE v \in rows : TRUE)

\* BibleVersion.get_for_user
get_for_user(database, user, guild) ==
    LET user_pref == session_get(database.user_prefs, user)
    IN  IF user_pref # None /\ bible_version(database, ValueOf(user_pref)) # None
        THEN Return(ValueOf(bible_version(database, ValueOf(user_pref))))
        ELSE LET guild_pref == IF guild # None
                               THEN session_get(database.guild_prefs, ValueOf(guild))
                               ELSE None
             IN  IF guild_pref # None /\ bible_version(database, ValueOf(guild_pref)) # None
                 THEN Return(ValueOf(bible_version(database, ValueOf(guild_pref))))
                 ELSE get_by_command(database, <<"e", "s", "v">>)

\* the versions, users and guilds of the database
Esv == BibleVersion(1, <<"e", "s", "v">>)
Kjv == BibleVersion(2, <<"k", "j", "v">>)
VersionTables == {{Esv, Kjv}, {Kjv}}
Users == {11, 12}
Guilds == {21, 22}
\* tables whose rows have no version yet
PrefTables(keys) == UNION {[present -> {Pref(None)}] : present \in SUBSET keys}

\* ------------------------------------------------------------ the program
VARIABLES
    op,               \* the entry point called
    string,           \* its text argument
    only_bracketed,   \* the keyword argument of get_all_from_string
    args,             \* the arguments of VerseRange.create
    pc,               \* where the call stands
    match,            \* get_all_from_string: the current match, or None
    ranges,           \* get_all_from_string: the list being built
    handled,          \* the matches the loop body has run for, in order
    range,            \* what VerseRange.create returned or raised
    rendered,         \* str(range)
    result,           \* what the call returned or raised, None before it ends
    calls,            \* concurrent callers: the frame (arguments, locals,
                      \* position, result) of the call each of them runs
    db                \* the tables bible_versions, user_prefs and guild_prefs

vars == <<op, string, only_bracketed, args, pc, match, ranges, handled,
          range, rendered, result, registry, _book, calls, db>>

\* the globals of the module after its import has run over _books_data
ImportedRegistry == load(_books_data)
Imported == registry = ImportedRegistry /\ _book = Len(_books_data)

\* the next search started where the match started
NextSearchOffset_AtStart(m) == m.start

\* the next search started one character after the start of the match
NextSearchOffset_AfterStart(m) == m.start + 1

\* the offset the next search of the loop starts from: match.end()
NextSearchOffset(m) == m.end

\* get_all_from_string: up to the first search
GetAllStart ==
    /\ op = "get_all_from_string" /\ pc = "start"
    /\ ranges' = << >>
    /\ match' = lookup_search(string, only_bracketed, 0)
    /\ pc' = "loop"
    /\ UNCHANGED <<op, string, only_bracketed, args, handled, range, rendered, result>>
    /\ UNCHANGED <<registry, _book, calls, db>>

\* get_all_from_string: one turn of the while loop
GetAllIterate ==
    /\ op = "get_all_from_string" /\ pc = "loop" /\ match # None
    /\ LET m == ValueOf(match)
           done == Materialize(m)
       IN  /\ handled' = Append(handled, m)
           /\ IF done.propagates
              THEN /\ pc' = "raised"
                   /\ result' = Some(Raise(done.element))
                   /\ UNCHANGED <<match, ranges>>
              ELSE /\ ranges' = Append(ranges, done.element)
                   /\ match' = lookup_search(string, only_bracketed, NextSearchOffset(m))
                   /\ UNCHANGED <<pc, result>>
    /\ UNCHANGED <<op, string, only_bracketed, args, range, rendered>>
    /\ UNCHANGED <<registry, _book, calls, db>>

\* get_all_from_string: return ranges
GetAllReturn ==
    /\ op = "get_all_from_string" /\ pc = "loop" /\ match = None
    /\ result' = Some(Return(ranges))
    /\ pc' = "done"
    /\ UNCHANGED <<op, string, only_bracketed, args, match, ranges, handled,
                   range, rendered>>
    /\ UNCHANGED <<registry, _book, calls, db>>

Idle ==
    /\ args = None /\ match = None /\ ranges = << >> /\ handled = << >>
    /\ range = None /\ rendered = None /\ result = None
    /\ calls = << >>
    /\ db = NoDatabase

Init ==
    /\ op = "get_all_from_string"
    /\ string \in ScanTexts
    /\ only_bracketed \in BOOLEAN
    /\ pc = "start"
    /\ Idle
    /\ Imported

Next == GetAllStart \/ GetAllIterate \/ GetAllReturn

\* scanning a text for references
Spec == Init /\ [][Next]_vars

\* VerseRange.from_string
FromString ==
    /\ op = "from_string" /\ pc = "start"
    /\ result' = Some(from_string(string))
    /\ pc' = "done"
    /\ UNCHANGED <<op, string, only_bracketed, args, match, ranges, handled,
                   range, rendered>>
    /\ UNCHANGED <<registry, _book, calls, db>>

\* VerseRange.from_string_with_version
FromStringWithVersion ==
    /\ op = "from_string_with_version" /\ pc = "start"
    /\ result' = Some(from_string_with_version(string))
    /\ pc' = "done"
    /\ UNCHANGED <<op, string, only_bracketed, args, match, ranges, handled,
                   range, rendered>>
    /\ UNCHANGED <<registry, _book, calls, db>>

InitParse ==
    /\ op \in {"from_string", "from_string_with_version"}
    /\ string \in ParseTexts
    /\ only_bracketed = FALSE
    /\ pc = "start"
    /\ Idle
    /\ Imported

NextParse == FromString \/ FromStringWithVersion

\* parsing a text that is one reference
SpecParse == InitParse /\ [][NextParse]_vars

\* VerseRange.create(book, start, end, version)
Create ==
    /\ op = "create" /\ pc = "start"
    /\ range' = Some(create(ValueOf(args).book, ValueOf(args).start,
                            ValueOf(args).end, ValueOf(args).version))
    /\ pc' = "created"
    /\ UNCHANGED <<op, string, only_bracketed, args, match, ranges, handled,
                   rendered, result>>
    /\ UNCHANGED <<registry, _book, calls, db>>

\* str(range), of a range that was created
Str ==
    /\ op = "create" /\ pc = "created" /\ ~ValueOf(range).raised
    /\ rendered' = Some(VerseRange__str__(ValueOf(range).value))
    /\ pc' = "rendered"
    /\ UNCHANGED <<op, string, only_bracketed, args, match, ranges, handled,
                   range, result>>
    /\ UNCHANGED <<registry, _book, calls, db>>

\* VerseRange.from_string(str(range))
Reparse ==
    /\ op = "create" /\ pc = "rendered"
    /\ result' = Some(from_string(ValueOf(rendered)))
    /\ pc' = "done"
    /\ UNCHANGED <<op, string, only_bracketed, args, match, ranges, handled,
                   range, rendered>>
    /\ UNCHANGED <<registry, _book, calls, db>>

InitRender ==
    /\ op = "create"
    /\ string = << >>
    /\ only_bracketed = FALSE
    /\ pc = "start"
    /\ match = None /\ ranges = << >> /\ handled = << >>
    /\ range = None /\ rendered = None /\ result = None
    /\ calls = << >>
    /\ db = NoDatabase
    /\ args \in {Some(a) : a \in CreateArgs}
    /\ Imported

NextRender == Create \/ Str \/ Reparse

\* creating a range, rendering it and parsing the rendering
SpecRender == InitRender /\ [][NextRender]_vars

\* ------------------------------------------------------------ the registry
\* a & b on non-negative integers
RECURSIVE BitAnd(_, _)
BitAnd(a, b) ==
    IF a = 0 \/ b = 0 THEN 0
    ELSE (a % 2) * (b % 2) + 2 * BitAnd(a \div 2, b \div 2)

\* the key under which get_books_for_mask looks up the first book of each division
GenesisKey == <<"g", "e", "n", "e", "s", "i", "s">>
MatthewKey == <<"m", "a", "t", "t", "h", "e", "w">>

\* a generic scan that leaves out only the books tagged DC
GenericBooks_KeepsSentinels(book_mask) ==
    SelectSeq(registry._books_data,
              LAMBDA book : IF book.section = DC THEN FALSE
                            ELSE BitAnd(book_mask, book.section) # 0)

\* a generic scan that wants the section to be the mask itself
GenericBooks_WholeMask(book_mask) ==
    SelectSeq(registry._books_data,
              LAMBDA book : IF book.section = 1 \/ book.section = 2 \/ book.section = DC
                            THEN FALSE
                            ELSE book_mask = book.section)

\* the for loop of get_books_for_mask: the books it yields, in its order
GenericBooks(book_mask) ==
    SelectSeq(registry._books_data,
              LAMBDA book : IF book.section = 1 \/ book.section = 2 \/ book.section = DC
                            THEN FALSE
                            ELSE BitAnd(book_mask, book.section) # 0)

\* the two ifs of get_books_for_mask: the books they yield
SentinelBooks(book_mask) ==
    (IF BitAnd(book_mask, 1) # 0 THEN <<registry._book_data_map[GenesisKey]>> ELSE << >>)
    \o (IF BitAnd(book_mask, 2) # 0 THEN <<registry._book_data_map[MatthewKey]>> ELSE << >>)

\* a generator that holds the two first books back until the loop is over
get_books_for_mask_SentinelsLast(book_mask) ==
    GenericBooks(book_mask) \o SentinelBooks(book_mask)

\* get_books_for_mask: everything the generator yields, in order
get_books_for_mask(book_mask) == SentinelBooks(book_mask) \o GenericBooks(book_mask)

\* the datasets the module is imported with: the books of _books_data, the
\* first book of each division keeping its section 1 or 2 and every other
\* book taking any section value
SectionValues == {1, 2, 4, 8, 12, DC}
RegistryDatasets ==
    {[i \in DOMAIN _books_data |->
         [_books_data[i] EXCEPT !.section = <<1, a, 2, b, c>>[i]]] :
        a \in SectionValues, b \in SectionValues, c \in SectionValues}

\* datasets in which two books share an input string after lower-casing
AddAlias(data, i, alias) == [data EXCEPT ![i].alt = Append(@, alias)]
DuplicateDatasets ==
    {AddAlias(_books_data, 4, <<"P", "S">>),
     AddAlias(_books_data, 2, <<"J", "n">>),
     AddAlias(_books_data, 5, <<"m", "a", "t", "t">>)}

\* the masks get_books_for_mask is called with
MaskBits == 4
RECURSIVE Power2(_)
Power2(n) == IF n = 0 THEN 1 ELSE 2 * Power2(n - 1)
Masks == 0..(Power2(MaskBits) - 1)

\* one turn of the loop the module runs when it is imported
ImportBook ==
    /\ pc = "import" /\ _book < Len(registry._books_data)
    /\ registry' = LoadBook(registry, registry._books_data[_book + 1])
    /\ _book' = _book + 1
    /\ UNCHANGED <<op, string, only_bracketed, args, pc, match, ranges, handled,
                   range, rendered, result, calls, db>>

\* the loop is over: the module is imported
ImportDone ==
    /\ pc = "import" /\ _book = Len(registry._books_data)
    /\ pc' = "imported"
    /\ UNCHANGED <<op, string, only_bracketed, args, match, ranges, handled,
                   range, rendered, result, registry, _book, calls, db>>

\* list(get_books_for_mask(book_mask))
GetBooksForMask ==
    /\ pc = "imported"
    /\ \E book_mask \in Masks :
          /\ args' = Some([book_mask |-> book_mask])
          /\ result' = Some(Return(get_books_for_mask(book_mask)))
    /\ op' = "get_books_for_mask"
    /\ pc' = "done"
    /\ UNCHANGED <<string, only_bracketed, match, ranges, handled, range,
                   rendered, registry, _book, calls, db>>

InitRegistry ==
    /\ op = "import"
    /\ string = << >>
    /\ only_bracketed = FALSE
    /\ pc = "import"
    /\ Idle
    /\ registry \in {Unloaded(data) : data \in RegistryDatasets \cup DuplicateDatasets}
    /\ _book = 0

NextRegistry == ImportBook \/ ImportDone \/ GetBooksForMask

\* importing the module over a dataset, then expanding a mask
SpecRegistry == InitRegistry /\ [][NextRegistry]_vars

\* ------------------------------------------------------------ the BiblesOrg service
\* dict.get(key, default); a JSON object is a function from its keys
Get(d, key, default) == IF key \in DOMAIN d THEN d[key] ELSE default
Has(d, key) == key \in DOMAIN d

DoNotUnderstandError == [kind |-> "DoNotUnderstandError", arg |-> None]
KeyError(key) == [kind |-> "KeyError", arg |-> key]

\* Passage.from_string of the reference of a search hit
Passage_from_string(verse) == from_string(verse)

\* the list comprehension of _get_search_results: the first exception of
\* Passage.from_string leaves it, otherwise the passages in the order of the hits
RECURSIVE Comprehension(_, _)
Comprehension(hits, n) ==
    IF n = 0 THEN Return(<< >>)
    ELSE LET before == Comprehension(hits, n - 1)
             passage == Passage_from_string(hits[n].reference)
         IN  IF before.raised THEN before
             ELSE IF passage.raised THEN passage
             ELSE Return(Append(before.value, passage.value))

\* SearchResults(verses, total)
SearchResults(passages, total) ==
    [kind |-> "SearchResults", verses |-> passages, total |-> total]

\* a _get_search_results that does not look for the 'verses' key
_get_search_results_NoVersesCheck(response) ==
    LET search == Get(response, "search", EmptyDict)
    IN  IF ~Has(search, "result") \/ ~Has(search.result, "summary")
        THEN Raise(DoNotUnderstandError)
        ELSE IF ~Has(search.result, "verses") THEN Raise(KeyError("verses"))
        ELSE LET passages == Comprehension(search.result.verses, Len(search.result.verses))
             IN  IF passages.raised THEN passages
                 ELSE Return(SearchResults(passages.value, search.result.summary.total))

\* BiblesOrg._get_search_results
_get_search_results(response) ==
    LET search == Get(response, "search", EmptyDict)
    IN  IF ~Has(search, "result") \/ ~Has(search.result, "summary")
           \/ ~Has(search.result, "verses")
        THEN Raise(DoNotUnderstandError)
        ELSE LET passages == Comprehension(search.result.verses, Len(search.result.verses))
             IN  IF passages.raised THEN passages
                 ELSE Return(SearchResults(passages.value, search.result.summary.total))

\* the markup of a passage is a sequence of nodes, each with the words it
\* holds: what BeautifulSoup leaves of it once the h3 headings are removed,
\* a period is put after the verse numbers and the small-caps spans are
\* unwrapped, as the words of get_text()
RECURSIVE NodeWords(_)
NodeWords(nodes) ==
    IF nodes = << >> THEN << >>
    ELSE (CASE Head(nodes).tag = "h3" -> << >>
            [] Head(nodes).tag = "sup.v" -> <<Head(nodes).words[1] \o <<".">> >>
            [] OTHER -> Head(nodes).words)
         \o NodeWords(Tail(nodes))

\* BiblesOrg._get_passage_text
_get_passage_text(response) ==
    LET payload == Get(Get(response, "search", EmptyDict), "result", EmptyDict)
    IN  IF ~Has(payload, "passages") THEN Raise(DoNotUnderstandError)
        ELSE IF Len(payload.passages) = 0 THEN Raise(DoNotUnderstandError)
        ELSE Return(NodeWords(payload.passages[1].text))

\* the responses of the provider: every key of the payload present or not
Jn_1_1_4 == [reference |-> <<"J", "n", " ", "1", ":", "1", "-", "4">>]
Ge_50_1 == [reference |-> <<"G", "e", " ", "5", "0", ":", "1">>]
Unparsed == [reference |-> Xx]
Markup ==
    [text |-> <<[tag |-> "h3", words |-> <<"Heading">>],
                [tag |-> "sup.v", words |-> << <<"1", "0">> >>],
                [tag |-> "text", words |-> <<"For">>],
                [tag |-> "span.sc", words |-> <<"CURSED">>]>>]
Option(values) == {None} \cup {Some(v) : v \in values}
Dict(keys, values) ==
    [k \in {key \in DOMAIN keys : values[key] # None} |-> ValueOf(values[k])]
SearchResultObjects ==
    {Dict([summary |-> 1, verses |-> 1, passages |-> 1],
          [summary |-> s, verses |-> v, passages |-> p]) :
        s \in Option({[total |-> 0], [total |-> 2], [total |-> 50]}),
        v \in Option({<< >>, <<Jn_1_1_4>>, <<Jn_1_1_4, Ge_50_1>>, <<Ge_50_1, Jn_1_1_4>>,
                      <<Jn_1_1_4, Unparsed>>}),
        p \in Option({<< >>, <<Markup>>, <<Markup, Markup>>})}
Responses ==
    {EmptyDict, [search |-> EmptyDict]}
    \cup {[search |-> [result |-> r]] : r \in SearchResultObjects}

\* BiblesOrg.search, once the response is there
GetSearchResults ==
    /\ op = "_get_search_results" /\ pc = "start"
    /\ result' = Some(_get_search_results(ValueOf(args)))
    /\ pc' = "done"
    /\ UNCHANGED <<op, string, only_bracketed, args, match, ranges, handled,
                   range, rendered, registry, _book, calls, db>>

\* BiblesOrg.get_passage, once the response is there
GetPassageText ==
    /\ op = "_get_passage_text" /\ pc = "start"
    /\ result' = Some(_get_passage_text(ValueOf(args)))
    /\ pc' = "done"
    /\ UNCHANGED <<op, string, only_bracketed, args, match, ranges, handled,
                   range, rendered, registry, _book, calls, db>>

InitService ==
    /\ op \in {"_get_search_results", "_get_passage_text"}
    /\ string = << >>
    /\ only_bracketed = FALSE
    /\ pc = "start"
    /\ match = None /\ ranges = << >> /\ handled = << >>
    /\ range = None /\ rendered = None /\ result = None
    /\ calls = << >>
    /\ db = NoDatabase
    /\ args \in {Some(response) : response \in Responses}
    /\ Imported

NextService == GetSearchResults \/ GetPassageText

\* the BiblesOrg service handling a response of the provider
SpecService == InitService /\ [][NextService]_vars

\* version.set_for_user(session, user)
SetForUser ==
    /\ pc = "session"
    /\ \E self \in db.bible_versions, user \in Users :
          /\ args' = Some([self |-> self, user |-> user])
          /\ db' = set_for_user(db, self, user)
    /\ op' = "set_for_user"
    /\ result' = Some(Return(None))
    /\ UNCHANGED <<string, only_bracketed, pc, match, ranges, handled, range,
                   rendered, registry, _book, calls>>

\* version.set_for_guild(session, guild)
SetForGuild ==
    /\ pc = "session"
    /\ \E self \in db.bible_versions, guild \in Guilds :
          /\ args' = Some([self |-> self, guild |-> guild])
          /\ db' = set_for_guild(db, self, guild)
    /\ op' = "set_for_guild"
    /\ result' = Some(Return(None))
    /\ UNCHANGED <<string, only_bracketed, pc, match, ranges, handled, range,
                   rendered, registry, _book, calls>>

\* BibleVersion.get_for_user(session, user, guild)
GetForUser ==
    /\ pc = "session"
    /\ \E user \in Users, guild \in Option(Guilds) :
          /\ args' = Some([user |-> user, guild |-> guild])
          /\ result' = Some(get_for_user(db, user, guild))
    /\ op' = "get_for_user"
    /\ UNCHANGED <<string, only_bracketed, pc, match, ranges, handled, range,
                   rendered, registry, _book, calls, db>>

InitPrefs ==
    /\ op = "session"
    /\ string = << >>
    /\ only_bracketed = FALSE
    /\ pc = "session"
    /\ args = None /\ match = None /\ ranges = << >> /\ handled = << >>
    /\ range = None /\ rendered = None /\ result = None
    /\ calls = << >>
    /\ \E versions \in VersionTables :
       \E users \in PrefTables(Users), guilds \in PrefTables(Guilds) :
          db = [bible_versions |-> versions, user_prefs |-> users, guild_prefs |-> guilds]
    /\ Imported

NextPrefs == SetForUser \/ SetForGuild \/ GetForUser

\* the calls that store and look up the preferred version of users and guilds
SpecPrefs == InitPrefs /\ [][NextPrefs]_vars

\* ------------------------------------------------------------ concurrent calls
\* the callers that run a call each, in any interleaving
Callers == {"first", "second"}

\* the calls they make: the entry point and its arguments
ConcurrentScanTexts ==
    {<<"[", "J", "n", " ", "1", ":", "1", "]", "J", "n", " ", "1", ":", "2">>,
     <<"P", LongS, " ", "1", ":", "3", " ", "J", "n", " ", "1", ":", "2">>,
     <<"x">>}
ConcurrentCalls ==
    [op : {"get_all_from_string"}, string : ConcurrentScanTexts,
     only_bracketed : BOOLEAN, book_mask : {0}]
    \cup [op : {"from_string", "from_string_with_version"},
          string : {<<"J", "n", " ", "3", ":", "1", "6", " ", "N">>,
                    <<"P", LongS, " ", "1", ":", "3">>},
          only_bracketed : {FALSE}, book_mask : {0}]
    \cup [op : {"get_book_data", "create"}, string : {<<"j", "N">>, Xx},
          only_bracketed : {FALSE}, book_mask : {0}]
    \cup [op : {"get_books_for_mask"}, string : {<< >>},
          only_bracketed : {FALSE}, book_mask : {3, 8}]

\* the frame of a call that has not started
Frame(call) ==
    [op |-> call.op, string |-> call.string, only_bracketed |-> call.only_bracketed,
     book_mask |-> call.book_mask, pc |-> "start", match |-> None,
     ranges |-> << >>, result |-> None]

\* the entry points that run in one step, applied to the arguments of a frame
Invoke(frame) ==
    CASE frame.op = "from_string" -> from_string(frame.string)
      [] frame.op = "from_string_with_version" -> from_string_with_version(frame.string)
      [] frame.op = "get_book_data" -> get_book_data(frame.string)
      [] frame.op = "create" ->
            create(frame.string, Verse(3, 16), Some(Verse(4, 1)), Some(<<"N">>))
      [] frame.op = "get_books_for_mask" -> Return(get_books_for_mask(frame.book_mask))

\* get_all_from_string of a caller: up to the first search
CallGetAllStart(c) ==
    /\ calls[c].op = "get_all_from_string" /\ calls[c].pc = "start"
    /\ calls' = [calls EXCEPT
                    ![c].ranges = << >>,
                    ![c].match = lookup_search(calls[c].string, calls[c].only_bracketed, 0),
                    ![c].pc = "loop"]

\* a loop body that appends to a list every caller shares
CallGetAllIterate_SharedRanges(c) ==
    /\ calls[c].op = "get_all_from_string" /\ calls[c].pc = "loop"
    /\ calls[c].match # None
    /\ LET m == ValueOf(calls[c].match)
           done == Materialize(m)
       IN  calls' = [k \in Callers |->
                        IF k = c
                        THEN [calls[k] EXCEPT
                                 !.ranges = Append(@, done.element),
                                 !.match = lookup_search(calls[c].string,
                                               calls[c].only_bracketed,
                                               NextSearchOffset(m))]
                        ELSE [calls[k] EXCEPT !.ranges = Append(@, done.element)]]

\* get_all_from_string of a caller: one turn of the while loop
CallGetAllIterate(c) ==
    /\ calls[c].op = "get_all_from_string" /\ calls[c].pc = "loop"
    /\ calls[c].match # None
    /\ LET m == ValueOf(calls[c].match)
           done == Materialize(m)
       IN  IF done.propagates
           THEN calls' = [calls EXCEPT ![c].pc = "raised",
                                       ![c].result = Some(Raise(done.element))]
           ELSE calls' = [calls EXCEPT
                             ![c].ranges = Append(@, done.element),
                             ![c].match = lookup_search(calls[c].string,
                                              calls[c].only_bracketed,
                                              NextSearchOffset(m))]

\* get_all_from_string of a caller: return ranges
CallGetAllReturn(c) ==
    /\ calls[c].op = "get_all_from_string" /\ calls[c].pc = "loop"
    /\ calls[c].match = None
    /\ calls' = [calls EXCEPT ![c].result = Some(Return(calls[c].ranges)),
                              ![c].pc = "done"]

\* any other entry point of a caller: it runs without a point of interleaving
CallInvoke(c) ==
    /\ calls[c].op # "get_all_from_string" /\ calls[c].pc = "start"
    /\ calls' = [calls EXCEPT ![c].result = Some(Invoke(calls[c])), ![c].pc = "done"]

\* one step of one caller
CallStep ==
    /\ \E c \in Callers :
          \/ CallGetAllStart(c)
          \/ CallGetAllIterate(c)
          \/ CallGetAllReturn(c)
          \/ CallInvoke(c)
    /\ UNCHANGED <<op, string, only_bracketed, args, pc, match, ranges, handled,
                   range, rendered, result, registry, _book, db>>

InitConcurrent ==
    /\ op = "concurrent"
    /\ string = << >>
    /\ only_bracketed = FALSE
    /\ pc = "imported"
    /\ args = None /\ match = None /\ ranges = << >> /\ handled = << >>
    /\ range = None /\ rendered = None /\ result = None
    /\ calls \in [Callers -> {Frame(call) : call \in ConcurrentCalls}]
    /\ db = NoDatabase
    /\ Imported

NextConcurrent == CallStep

\* calls of the entry points made by concurrent callers after the import
SpecConcurrent == InitConcurrent /\ [][NextConcurrent]_vars

\* ------------------------------------------------------------ scanning
\* the offset the search for the i-th match started from
SearchedFrom(i) == IF i = 1 THEN 0 ELSE handled[i - 1].end
IsError(element) == element.kind # "VerseRange"

\* C1: get_all_from_string never raises because of one match: when
\* from_match raises for a match, the exception is the element of the result
\* at that match's position, the next search starts at the end offset of
\* that match, and the scan ends only when no match is left after it.
C1_ErrorIsCapturedAndScanContinues ==
    /\ pc # "raised"
    /\ Len(ranges) = Len(handled)
    /\ \A i \in DOMAIN handled :
          LET outcome == from_match(handled[i])
          IN  outcome.raised =>
                /\ IsError(ranges[i]) /\ ranges[i] = outcome.value
                /\ i < Len(handled) =>
                     Some(handled[i + 1]) =
                       lookup_search(string, only_bracketed, handled[i].end)
                /\ i = Len(handled) =>
                     IF pc = "done"
                     THEN lookup_search(string, only_bracketed, handled[i].end) = None
                     ELSE match = lookup_search(string, only_bracketed, handled[i].end)

\* a scan that has ended with an error element followed by a VerseRange
C1_Witness ==
    /\ pc = "done"
    /\ \E i, j \in DOMAIN ranges :
          /\ i < j
          /\ ranges[i].kind = "BookNotUnderstoodError"
          /\ ranges[j].kind = "VerseRange"

\* C2: get_all_from_string returns one element per match of the selected
\* pattern, in the order of the matches in the text: the i-th element comes
\* from the leftmost match that starts at or after the end of match i - 1,
\* no two matches overlap, and when the pattern matches nowhere the result
\* is the empty list.
C2_OneElementPerMatchInOrder ==
    /\ Len(ranges) = Len(handled)
    /\ \A i \in DOMAIN handled :
          /\ Some(handled[i]) = lookup_search(string, only_bracketed, SearchedFrom(i))
          /\ SearchedFrom(i) <= handled[i].start
          /\ handled[i].start < handled[i].end
          /\ LET outcome == from_match(handled[i])
             IN  IsError(ranges[i]) = outcome.raised /\ ranges[i] = outcome.value
    /\ pc = "done" =>
          /\ ValueOf(result) = Return(ranges)
          /\ lookup_search(string, only_bracketed, SearchedFrom(Len(handled) + 1)) = None
          /\ lookup_search(string, only_bracketed, 0) = None => ranges = << >>

\* a scan that has ended with two ranges, the first from a wrapped reference
\* and the second from a bare one
C2_Witness ==
    /\ pc = "done" /\ Len(ranges) = 2
    /\ ranges[1].kind = "VerseRange" /\ ranges[2].kind = "VerseRange"
    /\ handled[1].groups.bracket # None
    /\ handled[2].groups.bracket = None

\* a wrapped, locator-shaped reference with the given book word, inside
\* the surrounding text the inputs allow
WrappedReferenceTexts(word) ==
    {pre \o <<"[">> \o word \o <<" ", "3", ":", "1", "6">> \o <<"]">> \o post :
        pre \in PreParts, post \in PostParts}
\* the book words of the inputs that are no name, OSIS code or alias
UnknownWords == {w \in BookParts \ {<< >>} : Lower(w) \notin DOMAIN _book_data_map}
\* some literal of the alternation matches the whole word under IGNORECASE
WholeIsLiteral(word) ==
    \E l \in Range(BookAlternatives) : Len(l) = Len(word) /\ LiteralAt(word, 0, l)
\* some literal of the alternation matches a suffix of the word
SuffixIsLiteral(word) ==
    \E p \in 0..(Len(word) - 1), l \in Range(BookAlternatives) :
        Len(l) = Len(word) - p /\ LiteralAt(word, p, l)

FullMatches(text) ==
    \E i \in 1..Len(_reference_re(text, [pos |-> 0, g |-> NoGroups])) :
        _reference_re(text, [pos |-> 0, g |-> NoGroups])[i].pos = Len(text)

\* C4: from_string returns a VerseRange only when the entire input, from its
\* first to its last character, matches the version-less reference pattern;
\* for every other input it raises ReferenceNotUnderstoodError carrying the
\* input text.
C4_ParseExactNeedsTheEntireInput ==
    (op = "from_string" /\ pc = "done") =>
        /\ ~ValueOf(result).raised => FullMatches(string)
        /\ ~FullMatches(string) =>
               /\ ValueOf(result).raised
               /\ ValueOf(result).value = ReferenceNotUnderstoodError(string)

\* the text is "L' C:V" with L' an upper/lower-case spelling of the literal
IsBookChapterVerse(text, literal, c, v) ==
    /\ Len(text) = Len(literal) + Len(c) + Len(v) + 2
    /\ Slice(text, Len(literal), Len(text)) = <<" ">> \o c \o <<":">> \o v
    /\ Slice(text, 0, Len(literal)) \in CaseVariations(literal)

\* C5: for every literal L (name, OSIS code or alias) of a book B, every
\* upper/lower-case spelling L' of L and all digit strings C and V,
\* from_string("L' C:V") returns a VerseRange whose book is the name of B
\* and whose osis, paratext and section are those of B.
C5_EveryCasingResolvesToItsBook ==
    (op = "from_string" /\ pc = "done") =>
        \A b \in 1..Len(_books_data) :
            \A i \in 1..Len(InputStrings(_books_data[b])) :
                \A c \in ChapterDigits, v \in VerseDigits :
                    IsBookChapterVerse(string, InputStrings(_books_data[b])[i], c, v) =>
                        /\ ~ValueOf(result).raised
                        /\ ValueOf(result).value.kind = "VerseRange"
                        /\ ValueOf(result).value.book = _books_data[b].name
                        /\ ValueOf(result).value.osis = _books_data[b].osis
                        /\ ValueOf(result).value.paratext = _books_data[b].paratext
                        /\ ValueOf(result).value.book_mask = _books_data[b].section

\* from_string has resolved a mixed-case spelling of an alias to its book
C5_Witness ==
    /\ op = "from_string" /\ pc = "done"
    /\ string = <<"j", "N", " ", "0", "3", ":", "1", "6">>
    /\ ~ValueOf(result).raised
    /\ ValueOf(result).value.book = <<"J", "o", "h", "n">>
    /\ ValueOf(result).value.start = Verse(3, 16)

\* C6: for every VerseRange r that create builds from a book of the registry,
\* a start and an optional end (same chapter or another chapter),
\* from_string(str(r)) succeeds and returns a VerseRange equal to r in book,
\* start, end, section, osis and paratext (the version apart).
C6_RoundTrip ==
    (op = "create" /\ pc = "done") =>
        /\ ~ValueOf(range).raised
        /\ ~ValueOf(result).raised
        /\ ValueOf(result).value.kind = "VerseRange"
        /\ ValueOf(result).value.book = ValueOf(range).value.book
        /\ ValueOf(result).value.start = ValueOf(range).value.start
        /\ ValueOf(result).value.end = ValueOf(range).value.end
        /\ ValueOf(result).value.book_mask = ValueOf(range).value.book_mask
        /\ ValueOf(result).value.osis = ValueOf(range).value.osis
        /\ ValueOf(result).value.paratext = ValueOf(range).value.paratext

\* a range with a version that ends in another chapter has been rendered
\* and parsed back
C6_Witness ==
    /\ op = "create" /\ pc = "done"
    /\ ValueOf(range).value.version # None
    /\ ValueOf(range).value.end # None
    /\ ValueOf(ValueOf(range).value.end).chapter # ValueOf(range).value.start.chapter
    /\ ValueOf(result).value.end = ValueOf(range).value.end
    /\ ValueOf(result).value.version = None

\* the decimal numeral of a positive number: the digit string without a
\* leading zero that reads as the number
Numeral(n) ==
    CHOOSE d \in UNION {[1..k -> DIGIT] : k \in 1..3} : d[1] # "0" /\ int(d) = n

\* the three renderings of the claim
Rendering(book, start, end) ==
    IF end = None
    THEN book \o <<" ">> \o Numeral(start.chapter) \o <<":">> \o Numeral(start.verse)
    ELSE IF ValueOf(end).chapter = start.chapter
    THEN book \o <<" ">> \o Numeral(start.chapter) \o <<":">> \o Numeral(start.verse)
              \o <<"-">> \o Numeral(ValueOf(end).verse)
    ELSE book \o <<" ">> \o Numeral(start.chapter) \o <<":">> \o Numeral(start.verse)
              \o <<"-">> \o Numeral(ValueOf(end).chapter) \o <<":">>
              \o Numeral(ValueOf(end).verse)

\* C7: str(VerseRange) is "{book} {c}:{v}" without an end, "{book}
\* {c}:{v}-{v2}" with an end in the chapter of the start and "{book}
\* {c}:{v}-{c2}:{v2}" with an end in another chapter; (3,16),(3,18) renders
\* "3:16-18" and (3,16),(4,1) renders "3:16-4:1" after the book.
C7_Rendering ==
    (op = "create" /\ rendered # None) =>
        LET r == ValueOf(range).value
        IN  /\ ValueOf(rendered) = Rendering(r.book, r.start, r.end)
            /\ (r.start = Verse(3, 16) /\ r.end = Some(Verse(3, 18))) =>
                   ValueOf(rendered) = r.book \o <<" ", "3", ":", "1", "6", "-", "1", "8">>
            /\ (r.start = Verse(3, 16) /\ r.end = Some(Verse(4, 1))) =>
                   ValueOf(rendered) =
                       r.book \o <<" ", "3", ":", "1", "6", "-", "4", ":", "1">>

\* the three renderings have all been produced: this one is the range into
\* another chapter
C7_Witness ==
    /\ op = "create" /\ pc = "rendered"
    /\ ValueOf(args).book = <<"J", "n">>
    /\ ValueOf(rendered) =
           <<"J", "o", "h", "n", " ", "3", ":", "1", "6", "-", "4", ":", "1">>

\* the end of the whitespace that begins at offset q
RECURSIVE SkipWhitespace(_, _)
SkipWhitespace(text, q) ==
    IF q < Len(text) /\ text[q + 1] \in WHITESPACE
    THEN SkipWhitespace(text, q + 1)
    ELSE q

\* the end of the digits that begin at offset q
RECURSIVE SkipDigits(_, _)
SkipDigits(text, q) ==
    IF q < Len(text) /\ text[q + 1] \in DIGIT
    THEN SkipDigits(text, q + 1)
    ELSE q

\* the offset of the book in a match: after the opening bracket and its
\* whitespace, if the match begins with them
BookStart(text, m) ==
    IF text[m.start + 1] = "[" THEN SkipWhitespace(text, m.start + 1) ELSE m.start

\* the literals of the registry that are prefixes of the text at offset p,
\* compared without regard to case
LiteralsAt(text, p) == {l \in Range(BookAlternatives) : LiteralAt(text, p, l)}

\* the text from offset q reads: an optional ".", whitespace, digits, a colon
\* inside optional whitespace, a digit
LocatorFollows(text, q) ==
    LET a == IF q < Len(text) /\ text[q + 1] = "." THEN q + 1 ELSE q
        b == SkipWhitespace(text, a)
        c == SkipDigits(text, b)
        d == SkipWhitespace(text, c)
        e == SkipWhitespace(text, d + 1)
    IN  /\ a < b /\ b < c
        /\ d < Len(text) /\ text[d + 1] = ":"
        /\ e < Len(text) /\ text[e + 1] \in DIGIT

\* C8 as stated: the captured book is the longest literal of the registry
\* that is a case-insensitive prefix of the text where the reference is
\* matched, never a shorter literal that is a prefix of it.
C8_LongestLiteralIsCaptured ==
    \A i \in DOMAIN handled :
        \A B \in LiteralsAt(string, BookStart(string, handled[i])) :
            Len(B) <= Len(ValueOf(handled[i].groups.book))

\* C8 amended: the captured book is a literal of the registry that is
\* followed by the locator (an optional ".", whitespace, the chapter, the
\* colon, the verse), whatever its length and its place in the dataset: of
\* two literals A and B, A a proper prefix of B, that are both prefixes of
\* the text there, neither is captured unless the locator follows it, so A
\* is never captured when the text goes on with a character other than "."
\* or whitespace, while A is captured, and not B, when the locator follows
\* A alone.
C8_CapturedBookIsFollowedByLocator ==
    \A i \in DOMAIN handled :
        LET p == BookStart(string, handled[i])
            book == ValueOf(handled[i].groups.book)
            q == p + Len(book)
        IN  /\ book = Slice(string, p, q)
            /\ \E L \in LiteralsAt(string, p) : Len(L) = Len(book)
            /\ LocatorFollows(string, q)
            /\ string[q + 1] \in WHITESPACE \cup {"."}
            /\ \A L \in LiteralsAt(string, p) :
                  ~LocatorFollows(string, p + Len(L)) => Len(L) # Len(book)

\* "Psalm 151:1" has been matched: the alias Psalm is captured although the
\* name "Psalm 151" is a prefix of the text too, and earlier alternatives
\* (Ps) were given up for it
C8_Witness ==
    /\ Len(handled) = 1 /\ Len(ranges) = 1
    /\ ValueOf(handled[1].groups.book) = PsalmWord
    /\ Psalm151 \in LiteralsAt(string, BookStart(string, handled[1]))
    /\ <<"P", "s">> \in LiteralsAt(string, BookStart(string, handled[1]))
    /\ ranges[1].kind = "VerseRange"
    /\ ranges[1].book = <<"P", "s", "a", "l", "m", "s">>
    /\ ranges[1].start = Verse(151, 1)

\* the word that follows offset q after whitespace, or None
RECURSIVE WordFrom(_, _)
WordFrom(text, q) ==
    IF q < Len(text) /\ text[q + 1] \in ALPHANUMERICS
    THEN <<text[q + 1]>> \o WordFrom(text, q + 1)
    ELSE << >>
TrailingCode(text, q) ==
    IF SkipWhitespace(text, q) > q /\ WordFrom(text, SkipWhitespace(text, q)) # << >>
    THEN Some(WordFrom(text, SkipWhitespace(text, q)))
    ELSE None

\* C9 as stated: with only_bracketed false, a bare reference followed by
\* whitespace and a translation code yields a VerseRange whose version is
\* that code.
C9_BareReferenceTakesVersion ==
    ~only_bracketed =>
        \A i \in DOMAIN handled :
            (/\ handled[i].groups.bracket = None
             /\ ranges[i].kind = "VerseRange"
             /\ TrailingCode(string, handled[i].end) # None) =>
                ranges[i].version = TrailingCode(string, handled[i].end)

\* C9 amended: with only_bracketed false, a bare reference yields a
\* VerseRange without a version, whatever follows it; a version is attached
\* by the wrapped form alone, and is then the word that stands, after
\* whitespace, before the closing bracket: "[Jn 3:16 N]" yields version N.
C9_OnlyWrappedFormCarriesVersion ==
    ~only_bracketed =>
        \A i \in DOMAIN handled :
            ranges[i].kind = "VerseRange" =>
                /\ handled[i].groups.bracket = None =>
                       (ranges[i].version = None /\ handled[i].groups.version = None)
                /\ ranges[i].version # None =>
                       /\ handled[i].groups.bracket # None
                       /\ string[handled[i].end] = "]"
                       /\ \E q \in handled[i].start..handled[i].end :
                             /\ TrailingCode(string, q) = ranges[i].version
                             /\ SkipWhitespace(string,
                                    SkipWhitespace(string, q)
                                      + Len(ValueOf(ranges[i].version)))
                                  = handled[i].end - 1
                /\ string = <<"[", "J", "n", " ", "3", ":", "1", "6", " ", "N", "]">> =>
                       ranges[i].version = Some(<<"N">>)

\* the scan of the bare "Jn 3:16 N" has ended with one range without version
C9_Witness ==
    /\ pc = "done" /\ ~only_bracketed
    /\ string = <<"J", "n", " ", "3", ":", "1", "6", " ", "N">>
    /\ Len(ranges) = 1
    /\ ranges[1].kind = "VerseRange" /\ ranges[1].version = None
    /\ handled[1].end = Len(string) - 2

\* C10: with only_bracketed true only references wrapped in "[" and "]"
\* produce elements: every element comes from a match that begins with "["
\* and ends with "]", and a text without "[" or without "]" after it (a bare
\* reference, an opening bracket that is never closed) yields no element.
C10_OnlyWrappedReferences ==
    only_bracketed =>
        /\ Len(ranges) = Len(handled)
        /\ \A i \in DOMAIN handled :
              /\ string[handled[i].start + 1] = "["
              /\ string[handled[i].end] = "]"
              /\ \A j \in (handled[i].start + 2)..(handled[i].end - 1) :
                    string[j] \notin {"[", "]"}
        /\ (\A a, b \in DOMAIN string : ~(a < b /\ string[a] = "[" /\ string[b] = "]"))
              => ranges = << >>

\* a scan of wrapped references only has ended with one element, the text
\* holding a bare reference before the wrapped one
C10_Witness ==
    /\ pc = "done" /\ only_bracketed
    /\ Len(ranges) = 1 /\ ranges[1].kind = "VerseRange"
    /\ handled[1].start > 0
    /\ Search("_reference_or_bracketed_with_version_re", string, 0) # None
    /\ ValueOf(Search("_reference_or_bracketed_with_version_re", string, 0)).end
           <= handled[1].start

\* ------------------------------------------------------------ masks
\* the entry of the dataset with the given name, and the place of a book in
\* the dataset
BookNamed(name) ==
    registry._books_data[CHOOSE i \in DOMAIN registry._books_data :
                            registry._books_data[i].name = name]
DatasetIndex(book) ==
    CHOOSE i \in DOMAIN registry._books_data : registry._books_data[i] = book
Genesis == BookNamed(<<"G", "e", "n", "e", "s", "i", "s">>)
Matthew == BookNamed(<<"M", "a", "t", "t", "h", "e", "w">>)
\* what a finished call of get_books_for_mask was given and has yielded
MaskCallDone == op = "get_books_for_mask" /\ pc = "done"
Mask == ValueOf(args).book_mask
Yielded == ValueOf(result).value
\* bit k of the mask is set (k a power of two)
HasBit(n, k) == (n \div k) % 2 = 1
\* the mask and the section have a set bit in common
SharesBit(n, section) ==
    \E e \in 0..MaskBits : HasBit(n, Power2(e)) /\ HasBit(section, Power2(e))

\* C11: the mask 1 | 2 yields the first book of each division, each once
\* and nothing else, also when other entries of the dataset have section 1
\* or 2; and no mask makes get_books_for_mask yield a book twice.
C11_SentinelMaskYieldsTwoBooks ==
    MaskCallDone =>
        /\ Mask = 3 => Yielded = <<Genesis, Matthew>>
        /\ \A i, j \in DOMAIN Yielded : i # j => Yielded[i] # Yielded[j]

\* the mask 1 | 2 has been expanded over a dataset in which a further book
\* has section 1 and another has section 2
C11_Witness ==
    /\ MaskCallDone /\ Mask = 3
    /\ \E i, j \in DOMAIN registry._books_data :
          /\ registry._books_data[i] # Genesis /\ registry._books_data[i].section = 1
          /\ registry._books_data[j] # Matthew /\ registry._books_data[j].section = 2
    /\ Len(Yielded) = 2

\* C12 as stated: apart from the two first-of-division books (in the output
\* when bit 1, or bit 2, of the mask is set) and the books tagged DC (never
\* in the output), a book is in the output if and only if the mask and its
\* section share a set bit.
C12_EveryBookSharingABit ==
    MaskCallDone =>
        \A i \in DOMAIN registry._books_data :
            LET book == registry._books_data[i]
                out == \E k \in DOMAIN Yielded : Yielded[k] = book
            IN  IF book = Genesis THEN out = HasBit(Mask, 1)
                ELSE IF book = Matthew THEN out = HasBit(Mask, 2)
                ELSE IF book.section = DC THEN ~out
                ELSE out = SharesBit(Mask, book.section)

\* C12 amended: the first book of each division is in the output exactly
\* when bit 1, or bit 2, of the mask is set; a book tagged DC and every other
\* book whose section is 1 or 2 is never in the output; any other book is in
\* the output if and only if the mask and its section share a set bit.
C12_BooksOfOtherSectionsSharingABit ==
    MaskCallDone =>
        \A i \in DOMAIN registry._books_data :
            LET book == registry._books_data[i]
                out == \E k \in DOMAIN Yielded : Yielded[k] = book
            IN  IF book = Genesis THEN out = HasBit(Mask, 1)
                ELSE IF book = Matthew THEN out = HasBit(Mask, 2)
                ELSE IF book.section \in {DC, 1, 2} THEN ~out
                ELSE out = SharesBit(Mask, book.section)

\* the mask 1 | 4 has been expanded over a dataset with a second book of
\* section 1 and a book of section 4 | 8: the latter is yielded, the former not
C12_Witness ==
    /\ MaskCallDone /\ Mask = 5
    /\ \E i, j \in DOMAIN registry._books_data :
          /\ registry._books_data[i] # Genesis /\ registry._books_data[i].section = 1
          /\ registry._books_data[j].section = 12
          /\ Yielded = <<Genesis, registry._books_data[j]>>

\* C13 as stated: the books are yielded in the order of the dataset, the
\* first-of-division books included.
C13_DatasetOrder ==
    MaskCallDone =>
        \A i, j \in DOMAIN Yielded :
            i < j => DatasetIndex(Yielded[i]) < DatasetIndex(Yielded[j])

\* C13 amended: the first-of-division books selected by bits 1 and 2 are
\* yielded first, Genesis before Matthew, whatever their place in the
\* dataset; the other books follow them, in the order of the dataset.
C13_SentinelsFirstThenDatasetOrder ==
    MaskCallDone =>
        LET first == (IF HasBit(Mask, 1) THEN <<Genesis>> ELSE << >>)
                     \o (IF HasBit(Mask, 2) THEN <<Matthew>> ELSE << >>)
        IN  /\ Len(Yielded) >= Len(first)
            /\ SubSeq(Yielded, 1, Len(first)) = first
            /\ \A i, j \in (Len(first) + 1)..Len(Yielded) :
                  i < j => DatasetIndex(Yielded[i]) < DatasetIndex(Yielded[j])
            /\ \A i \in (Len(first) + 1)..Len(Yielded) :
                  Yielded[i] \notin {Genesis, Matthew}

\* Matthew has been yielded before a book that precedes it in the dataset
\* and a book that follows it
C13_Witness ==
    /\ MaskCallDone /\ Len(Yielded) = 3
    /\ Yielded[1] = Matthew
    /\ DatasetIndex(Yielded[2]) < DatasetIndex(Matthew)
    /\ DatasetIndex(Yielded[3]) > DatasetIndex(Matthew)

\* ------------------------------------------------------------ loading
\* two books have an input string in common once lower-cased
SharesKey(a, b) ==
    \E x \in Range(InputStrings(a)), y \in Range(InputStrings(b)) : Lower(x) = Lower(y)

\* C14: building the registry from a dataset in which two different books
\* share a name, OSIS code or alias after case-folding fails at load time:
\* the import never gets past the second of the two books, so that no
\* registry exists in which one entry has replaced the other under the key.
C14_DuplicateKeyFailsAtLoad ==
    \A i, j \in DOMAIN registry._books_data :
        (i < j /\ SharesKey(registry._books_data[i], registry._books_data[j])) =>
            /\ _book < j
            /\ pc = "import"

\* ------------------------------------------------------------ verses
\* both numbers of a verse are positive
IsPositive(v) == v.chapter >= 1 /\ v.verse >= 1

\* C15: every Verse of a VerseRange that from_string or
\* from_string_with_version returns (the start, and the end when there is
\* one) has a chapter and a verse of at least 1; a text whose chapter or
\* verse digits denote 0 yields no VerseRange.
C15_VersesArePositive ==
    (op \in {"from_string", "from_string_with_version"} /\ pc = "done"
        /\ ~ValueOf(result).raised) =>
            /\ IsPositive(ValueOf(result).value.start)
            /\ ValueOf(result).value.end # None =>
                   IsPositive(ValueOf(ValueOf(result).value.end))

\* ------------------------------------------------------------ purity
\* what a scan returns when nothing else runs: the elements of the matches
\* from the given one on
RECURSIVE ScanFrom(_, _, _)
ScanFrom(text, bracketed, m) ==
    IF m = None THEN << >>
    ELSE <<from_match(ValueOf(m)).value>>
         \o ScanFrom(text, bracketed, lookup_search(text, bracketed, ValueOf(m).end))
\* what the call of a frame returns when it runs alone
Alone(frame) ==
    IF frame.op = "get_all_from_string"
    THEN Return(ScanFrom(frame.string, frame.only_bracketed,
                         lookup_search(frame.string, frame.only_bracketed, 0)))
    ELSE Invoke(frame)

\* C16: after the import no call of get_book_data, get_books_for_mask,
\* create, from_string, from_string_with_version or get_all_from_string
\* changes the dataset or one of the three maps, and under every
\* interleaving of concurrent calls each call returns what it returns when
\* it runs alone on its arguments.
C16_CallsArePure ==
    /\ registry = ImportedRegistry
    /\ _book = Len(_books_data)
    /\ \A c \in DOMAIN calls :
          /\ calls[c].pc # "raised"
          /\ calls[c].pc = "done" => calls[c].result = Some(Alone(calls[c]))

\* two scans are under way at the same time, each with one element so far
\* and a match still to handle
C16_Witness ==
    /\ op = "concurrent"
    /\ \A c \in DOMAIN calls :
          /\ calls[c].op = "get_all_from_string" /\ calls[c].pc = "loop"
          /\ Len(calls[c].ranges) = 1 /\ calls[c].match # None
    /\ calls["first"].string # calls["second"].string

\* ------------------------------------------------------------ the provider
\* the payload of a response: search.result, when it is there
HasSearchResult(response) ==
    "search" \in DOMAIN response /\ "result" \in DOMAIN response["search"]
SearchResultOf(response) == response["search"]["result"]

ParseGroups ==
    ValueOf(MatchAt(IF op = "from_string" THEN "_search_reference_re"
                    ELSE "_search_reference_with_version_re", string, 0)).groups

\* C18: from_match gives no end when no verse_end was captured,
\* Verse(chapter_start, verse_end) when a verse_end was captured without a
\* chapter_end and Verse(chapter_end, verse_end) when both were; a range whose
\* end is before its start, like "John 3:20-3:5", is returned as written,
\* neither rejected nor reordered.
C18_EndOfRange ==
    (op \in {"from_string", "from_string_with_version"} /\ pc = "done") =>
        /\ (~ValueOf(result).raised) =>
              LET found == ValueOf(result).value
              IN  /\ found.start = Verse(int(ValueOf(ParseGroups.chapter_start)),
                                         int(ValueOf(ParseGroups.verse_start)))
                  /\ ParseGroups.verse_end = None => found.end = None
                  /\ (ParseGroups.verse_end # None /\ ParseGroups.chapter_end = None) =>
                        found.end = Some(Verse(found.start.chapter,
                                               int(ValueOf(ParseGroups.verse_end))))
                  /\ (ParseGroups.verse_end # None /\ ParseGroups.chapter_end # None) =>
                        found.end = Some(Verse(int(ValueOf(ParseGroups.chapter_end)),
                                               int(ValueOf(ParseGroups.verse_end))))
        /\ \A c \in RangeChapters, v \in RangeVerses :
              /\ string = Jn \o <<" ">> \o c \o <<":">> \o v =>
                    /\ ~ValueOf(result).raised
                    /\ ValueOf(result).value.start = Verse(int(c), int(v))
                    /\ ValueOf(result).value.end = None
              /\ \A ve \in RangeVerses :
                    /\ string = Jn \o <<" ">> \o c \o <<":">> \o v \o <<"-">> \o ve =>
                          /\ ~ValueOf(result).raised
                          /\ ValueOf(result).value.start = Verse(int(c), int(v))
                          /\ ValueOf(result).value.end = Some(Verse(int(c), int(ve)))
                    /\ \A ce \in RangeChapters :
                          string = Jn \o <<" ">> \o c \o <<":">> \o v \o <<"-">>
                                      \o ce \o <<":">> \o ve =>
                              /\ ~ValueOf(result).raised
                              /\ ValueOf(result).value.start = Verse(int(c), int(v))
                              /\ ValueOf(result).value.end = Some(Verse(int(ce), int(ve)))

\* "Jn 3:20-3:5" has been parsed to a range from 3:20 to 3:5
C18_Witness ==
    /\ op = "from_string" /\ pc = "done"
    /\ string = <<"J", "n", " ", "3", ":", "2", "0", "-", "3", ":", "5">>
    /\ ~ValueOf(result).raised
    /\ ValueOf(result).value.start = Verse(3, 20)
    /\ ValueOf(result).value.end = Some(Verse(3, 5))

\* ------------------------------------------------------------ termination
\* what is left of the call: the characters after the offset of the next
\* search while the loop has a match, and the steps after the loop
ScanMeasure ==
    CASE pc = "start" -> Len(string) + 3
      [] pc = "loop" /\ match # None -> Len(string) - ValueOf(match).end + 2
      [] pc = "loop" /\ match = None -> 1
      [] OTHER -> 0

\* C19: the loop of get_all_from_string terminates for every text and both
\* values of only_bracketed.  Every match of the lookup pattern is non-empty
\* and lies in the text, each search starts at a strictly greater offset than
\* the one before, the list never holds more elements than the text has
\* characters, and every step of the call strictly decreases a natural number.
C19_ScanTerminates ==
    /\ [](/\ ScanMeasure \in Nat
          /\ match # None => /\ ValueOf(match).start < ValueOf(match).end
                             /\ ValueOf(match).end <= Len(string)
          /\ \A i \in DOMAIN handled :
                /\ handled[i].start < handled[i].end
                /\ i > 1 => /\ NextSearchOffset(handled[i - 1]) <= handled[i].start
                            /\ NextSearchOffset(handled[i - 1]) < NextSearchOffset(handled[i])
          /\ Len(ranges) <= Len(handled)
          /\ Len(ranges) <= Len(string))
    /\ [][ScanMeasure' < ScanMeasure]_vars

\* a scan has ended after three turns of the loop
C19_Witness ==
    /\ op = "get_all_from_string" /\ pc = "done"
    /\ Len(handled) = 3
    /\ ValueOf(result) = Return(ranges)
    /\ Len(ranges) = 3

\* ------------------------------------------------------------ preferences
\* the version stored for a key of a table: the one its row refers to
StoredVersion(table, key) ==
    IF key \in DOMAIN table /\ table[key].bible_id # None
    THEN {v \in db.bible_versions : v.id = ValueOf(table[key].bible_id)}
    ELSE {}
\* the rows of the keys other than one are the same in both tables
SameElsewhere(before, after, key) ==
    /\ DOMAIN after \ {key} = DOMAIN before \ {key}
    /\ \A k \in DOMAIN before \ {key} : after[k] = before[k]

\* C20: get_for_user returns the version stored for the user if the user has
\* a preference with a version, else the version stored for the guild if a
\* guild is given and has a preference with a version, else the version
\* whose command is 'esv', raising InvalidVersionError when there is none.
\* set_for_user and set_for_guild store the version for the one id, in place
\* of what was stored for it, and leave every other row of both tables as
\* it was; get_for_user changes nothing.
C20_PreferredVersion ==
    [][/\ op' = "set_for_user" =>
            LET call == ValueOf(args')
            IN  /\ call.user \in DOMAIN db'.user_prefs
                /\ db'.user_prefs[call.user].bible_id = Some(call.self.id)
                /\ SameElsewhere(db.user_prefs, db'.user_prefs, call.user)
                /\ db'.guild_prefs = db.guild_prefs
                /\ db'.bible_versions = db.bible_versions
       /\ op' = "set_for_guild" =>
            LET call == ValueOf(args')
            IN  /\ call.guild \in DOMAIN db'.guild_prefs
                /\ db'.guild_prefs[call.guild].bible_id = Some(call.self.id)
                /\ SameElsewhere(db.guild_prefs, db'.guild_prefs, call.guild)
                /\ db'.user_prefs = db.user_prefs
                /\ db'.bible_versions = db.bible_versions
       /\ op' = "get_for_user" =>
            LET call == ValueOf(args')
                of_user == StoredVersion(db.user_prefs, call.user)
                of_guild == IF call.guild = None THEN {}
                            ELSE StoredVersion(db.guild_prefs, ValueOf(call.guild))
                default == {v \in db.bible_versions : v.command = <<"e", "s", "v">>}
            IN  /\ db' = db
                /\ of_user # {} =>
                      /\ ~ValueOf(result').raised
                      /\ ValueOf(result').value \in of_user
                /\ (of_user = {} /\ of_guild # {}) =>
                      /\ ~ValueOf(result').raised
                      /\ ValueOf(result').value \in of_guild
                /\ (of_user = {} /\ of_guild = {} /\ default # {}) =>
                      /\ ~ValueOf(result').raised
                      /\ ValueOf(result').value \in default
                /\ (of_user = {} /\ of_guild = {} /\ default = {}) =>
                      ValueOf(result') = Raise(InvalidVersionError(<<"e", "s", "v">>))
      ]_vars

\* with versions stored for two users and a guild, the lookup for a user in
\* that guild has returned the user's version and not the guild's
C20_Witness ==
    /\ op = "get_for_user"
    /\ ValueOf(args) = [user |-> 11, guild |-> Some(21)]
    /\ 11 \in DOMAIN db.user_prefs /\ db.user_prefs[11] = Pref(Some(2))
    /\ 12 \in DOMAIN db.user_prefs /\ db.user_prefs[12] = Pref(Some(1))
    /\ 21 \in DOMAIN db.guild_prefs /\ db.guild_prefs[21] = Pref(Some(1))
    /\ ValueOf(result) = Return(Kjv)

====
